---- MODULE Spec2Model ----
(***************************************************************************)
(* Page-flow reconstruction engine of scripts/html_to_json.py:             *)
(* process_pages driving ColumnProcessor, footnote extraction and inline   *)
(* footnote resolution, merge_fragments and build_document; with the pure  *)
(* functions should_merge, detect_language and                             *)
(* extract_structured_text_from_note, and generate_tei of                  *)
(* src/apographon/tei_generator.py.                                        *)
(*                                                                         *)
(* Text is modelled character by character: a string is a sequence of      *)
(* one-character atoms.  Atoms that are not ASCII are named: "s1".."s9"    *)
(* and "s0" are the superscript digits, "alpha" is a Greek letter, "nl"    *)
(* is the newline character.  The parsed document (the BeautifulSoup tree) *)
(* is the input; markup is a sequence of inline items.                     *)
(***************************************************************************)
EXTENDS Integers, Sequences, FiniteSets, TLC

VARIABLES pc, cp, fragments, prov, post_src, visits, page_footnotes, note_map, ret,
          merged, msrc, document

vars == <<pc, cp, fragments, prov, post_src, visits, page_footnotes, note_map, ret,
          merged, msrc, document>>

\* ------------------------------------------------------------------ bounds
MaxPages == 3
MaxCalls == 3

\* ------------------------------------------------------- character classes
Digits == {"0", "1", "2", "3", "4", "5", "6", "7", "8", "9"}
SuperDigits == {"s0", "s1", "s2", "s3", "s4", "s5", "s6", "s7", "s8", "s9"}
UpperChars == <<"A", "B", "C", "D", "E", "F", "G", "H", "I", "J", "K", "L", "M",
                "N", "O", "P", "Q", "R", "S", "T", "U", "V", "W", "X", "Y", "Z">>
LowerChars == <<"a", "b", "c", "d", "e", "f", "g", "h", "i", "j", "k", "l", "m",
                "n", "o", "p", "q", "r", "s", "t", "u", "v", "w", "x", "y", "z">>
Range(s) == {s[i] : i \in DOMAIN s}
GreekChars == {"alpha", "beta"}
Whitespace == {" ", "nl"}
WordChars == Range(UpperChars) \cup Range(LowerChars) \cup Digits \cup {"_"}

\* str.isdigit() of one character: true of decimal digits and of superscript digits
IsDigitChar(c) == c \in Digits \cup SuperDigits

\* str.isdigit(): non-empty and every character a digit
IsDigitStr(s) == s # <<>> /\ \A i \in DOMAIN s : IsDigitChar(s[i])

\* str.lower() of one character
LowerChar(c) ==
    IF \E i \in DOMAIN UpperChars : UpperChars[i] = c
    THEN LowerChars[CHOOSE i \in DOMAIN UpperChars : UpperChars[i] = c]
    ELSE c

Lowered(s) == [i \in DOMAIN s |-> LowerChar(s[i])]

\* ------------------------------------------------------------ string helpers
RECURSIVE LStrip(_)
LStrip(s) == IF s # <<>> /\ Head(s) \in Whitespace THEN LStrip(Tail(s)) ELSE s

RECURSIVE RStrip(_)
RStrip(s) ==
    IF s # <<>> /\ s[Len(s)] \in Whitespace THEN RStrip(SubSeq(s, 1, Len(s) - 1)) ELSE s

Strip(s) == LStrip(RStrip(s))

StartsWith(s, p) == Len(s) >= Len(p) /\ SubSeq(s, 1, Len(p)) = p

\* p occurs in s as a contiguous substring
Contains(s, p) == \E i \in 0..(Len(s) - Len(p)) : SubSeq(s, i + 1, i + Len(p)) = p

\* the concatenation of ss[lo..hi], by halves (the recursion stays shallow)
RECURSIVE FlattenRange(_, _, _)
FlattenRange(ss, lo, hi) ==
    IF lo > hi THEN <<>>
    ELSE IF lo = hi THEN ss[lo]
    ELSE FlattenRange(ss, lo, (lo + hi) \div 2) \o FlattenRange(ss, (lo + hi) \div 2 + 1, hi)

Flatten(ss) == FlattenRange(ss, 1, Len(ss))

RECURSIVE Join(_, _)
Join(ss, sep) ==
    IF ss = <<>> THEN <<>>
    ELSE IF Len(ss) = 1 THEN ss[1]
    ELSE ss[1] \o sep \o Join(Tail(ss), sep)

Indices(s) == [i \in 1..Len(s) |-> i]

\* the positions of s that are no white space or start a run of white space
RunStarts(s) ==
    SelectSeq(Indices(s),
              LAMBDA i : s[i] \notin Whitespace \/ i = 1 \/ s[i - 1] \notin Whitespace)

SqueezeAt(s, keep) ==
    [k \in 1..Len(keep) |-> IF s[keep[k]] \in Whitespace THEN " " ELSE s[keep[k]]]

\* re.sub(r"\s+", " ", text): every run of white space becomes one space
CollapseWs(s) == SqueezeAt(s, RunStarts(s))

\* re.sub(r"\s+", " ", text).strip()
clean_text(text) == Strip(CollapseWs(text))

\* ------------------------------------------------------------- to_superscript
SuperOf(d) == <<"s0", "s1", "s2", "s3", "s4", "s5", "s6", "s7", "s8", "s9">>[d + 1]

RECURSIVE to_superscript(_)
to_superscript(marker) ==
    IF marker < 10 THEN <<SuperOf(marker)>>
    ELSE to_superscript(marker \div 10) \o <<SuperOf(marker % 10)>>

\* ------------------------------------------------------------ detect_language
LATIN_KEYWORDS ==
    { <<"e","s","t">>, <<"e","t">>, <<"i","n">>, <<"u","t">>, <<"a","u","t">>,
      <<"n","e","c">>, <<"q","u","o">>, <<"n","o","n">>, <<"q","u","a","e">>,
      <<"e","i","u","s">> }

detect_language(text) ==
    IF \E i \in DOMAIN text : text[i] \in GreekChars THEN "grc"
    ELSE LET lowered == Lowered(text)
             padded == <<" ">> \o lowered \o <<" ">>
             hits == Cardinality({w \in LATIN_KEYWORDS : Contains(padded, <<" ">> \o w \o <<" ">>)})
         IN IF hits >= 2 \/ StartsWith(Strip(lowered), <<"q","u">>) THEN "la" ELSE "de"

\* ------------------------------------------------------------- parsed markup
\* An inline node of the parsed tree.  t = "c": one character of a text node;
\* t = "a": an <a class="footnote-ref" href="#href"> whose text is raw;
\* t = "bl": an <a class="footnote-backlink"> whose text is raw; t = "br": a <br>;
\* t = "b": an element boundary (<td>, </td>): it carries no text, and the text
\* nodes on its two sides are not siblings.
Chr(ch) == [t |-> "c", c |-> ch, href |-> <<>>, raw |-> <<>>]
Txt(s) == [i \in DOMAIN s |-> Chr(s[i])]
Ref(id, raw) == [t |-> "a", c |-> "", href |-> id, raw |-> raw]
Backlink(raw) == [t |-> "bl", c |-> "", href |-> <<>>, raw |-> raw]
Br == [t |-> "br", c |-> "", href |-> <<>>, raw |-> <<>>]
Boundary == [t |-> "b", c |-> "", href |-> <<>>, raw |-> <<>>]

\* length of the text node that starts the node sequence ns
RECURSIVE RunLen(_)
RunLen(ns) == IF ns # <<>> /\ Head(ns).t = "c" THEN 1 + RunLen(Tail(ns)) ELSE 0

CharsOf(ns) == [i \in DOMAIN ns |-> ns[i].c]

\* the text nodes of a node sequence, in document order (a <br> that was replaced
\* by "\n" is the text node "\n")
RECURSIVE Strings(_)
Strings(ns) ==
    IF ns = <<>> THEN <<>>
    ELSE IF Head(ns).t = "c"
         THEN LET n == RunLen(ns) IN
              <<CharsOf(SubSeq(ns, 1, n))>> \o Strings(SubSeq(ns, n + 1, Len(ns)))
    ELSE IF Head(ns).t = "br" THEN << <<"nl">> >> \o Strings(Tail(ns))
    ELSE IF Head(ns).t \in {"a", "bl"} /\ Head(ns).raw # <<>>
         THEN <<Head(ns).raw>> \o Strings(Tail(ns))
    ELSE Strings(Tail(ns))

\* Tag.get_text(separator)
get_text(ns, sep) == Join(Strings(ns), sep)

\* Tag.get_text(strip=True): the stripped non-empty text nodes, concatenated
get_text_strip(ns) ==
    LET ss == Strings(ns)
        RECURSIVE keep(_)
        keep(xs) == IF xs = <<>> THEN <<>>
                    ELSE IF Strip(Head(xs)) = <<>> THEN keep(Tail(xs))
                    ELSE <<Strip(Head(xs))>> \o keep(Tail(xs))
    IN Flatten(keep(ss))

\* ------------------------------------------- extract_structured_text_from_note
RECURSIVE NlRun(_)
NlRun(s) == IF s # <<>> /\ Head(s) = "nl" THEN 1 + NlRun(Tail(s)) ELSE 0

\* re.sub(r"\n{3,}", "\n\n", text)
RECURSIVE CollapseNl(_)
CollapseNl(s) ==
    IF s = <<>> THEN <<>>
    ELSE IF Head(s) = "nl"
         THEN LET n == NlRun(s) IN
              (IF n >= 3 THEN <<"nl", "nl">> ELSE SubSeq(s, 1, n))
                  \o CollapseNl(SubSeq(s, n + 1, Len(s)))
    ELSE <<Head(s)>> \o CollapseNl(Tail(s))

RECURSIVE SplitNl(_)
SplitNl(s) ==
    IF \A i \in DOMAIN s : s[i] # "nl" THEN <<s>>
    ELSE LET i == CHOOSE k \in DOMAIN s : s[k] = "nl" /\ \A j \in 1..(k - 1) : s[j] # "nl"
         IN <<SubSeq(s, 1, i - 1)>> \o SplitNl(SubSeq(s, i + 1, Len(s)))

\* str.splitlines()
splitlines(s) ==
    LET p == SplitNl(s) IN IF p[Len(p)] = <<>> THEN SubSeq(p, 1, Len(p) - 1) ELSE p

RECURSIVE DropLeadingBlank(_)
DropLeadingBlank(ls) ==
    IF ls # <<>> /\ Head(ls) = <<>> THEN DropLeadingBlank(Tail(ls)) ELSE ls

RECURSIVE DropTrailingBlank(_)
DropTrailingBlank(ls) ==
    IF ls # <<>> /\ ls[Len(ls)] = <<>>
    THEN DropTrailingBlank(SubSeq(ls, 1, Len(ls) - 1)) ELSE ls

StripLines(ls) == [i \in DOMAIN ls |-> Strip(ls[i])]

\* The footnote markup is the node sequence ns (the model's footnotes hold text,
\* <br> and links, no table).
extract_structured_text_from_note(ns) ==
    Join(DropTrailingBlank(DropLeadingBlank(
             StripLines(splitlines(CollapseNl(get_text(ns, <<"nl">>)))))),
         <<"nl">>)

\* ----------------------------------------------------- footnote list items
\* note_li.find('a', class_='footnote-backlink').decompose(): the first backlink
\* is removed
RECURSIVE DecomposeBacklink(_)
DecomposeBacklink(ns) ==
    IF ns = <<>> THEN <<>>
    ELSE IF Head(ns).t = "bl" THEN Tail(ns)
    ELSE <<Head(ns)>> \o DecomposeBacklink(Tail(ns))

\* "".join(str(c) for c in note_li.contents).strip(): the serialised markup loses
\* the white space at its two ends (a tag at an end stops the strip)
RECURSIVE LStripNodes(_)
LStripNodes(ns) ==
    IF ns # <<>> /\ Head(ns).t = "c" /\ Head(ns).c \in Whitespace
    THEN LStripNodes(Tail(ns)) ELSE ns

RECURSIVE RStripNodes(_)
RStripNodes(ns) ==
    IF ns # <<>> /\ ns[Len(ns)].t = "c" /\ ns[Len(ns)].c \in Whitespace
    THEN RStripNodes(SubSeq(ns, 1, Len(ns) - 1)) ELSE ns

StripNodes(ns) == LStripNodes(RStripNodes(ns))

RECURSIVE DigitRun(_)
DigitRun(s) == IF s # <<>> /\ Head(s) \in Digits THEN 1 + DigitRun(Tail(s)) ELSE 0

RECURSIVE WsRun(_)
WsRun(s) == IF s # <<>> /\ Head(s) \in Whitespace THEN 1 + WsRun(Tail(s)) ELSE 0

\* number of characters that ^\s*([¹²³⁴⁵⁶⁷⁸⁹*]|\d+)\)\s* matches at the start of s
EnumeratorLen(s) ==
    LET w == WsRun(s)
        r == SubSeq(s, w + 1, Len(s))
        one == r # <<>> /\ r[1] \in (SuperDigits \ {"s0"}) \cup {"*"}
        d == IF one THEN 1 ELSE DigitRun(r)
        after == SubSeq(r, d + 1, Len(r))
    IN IF d >= 1 /\ after # <<>> /\ after[1] = ")"
       THEN w + d + 1 + WsRun(Tail(after))
       ELSE 0

\* re.sub(r'^\s*([¹²³⁴⁵⁶⁷⁸⁹*]|\d+)\)\s*', '', markup, 1): only the text node that
\* starts the markup can match
StripEnumerator(ns) ==
    LET k == EnumeratorLen(CharsOf(SubSeq(ns, 1, RunLen(ns))))
    IN SubSeq(ns, k + 1, Len(ns))

NotePrefix == <<"n", "o", "t", "e", "-">>

\* the plain text of a footnote list item, as both extraction loops compute it
NotePlainText(li) ==
    extract_structured_text_from_note(
        StripEnumerator(StripNodes(DecomposeBacklink(li.nodes))))

inline_note_text(note_payload) ==
    IF note_payload.text = <<>> THEN note_payload.marker
    ELSE note_payload.marker \o <<"F","o","o","t","n","o","t","e"," ">>
            \o note_payload.marker \o <<".", " ">> \o note_payload.text

\* ------------------------------------------------------------ the page tree
\* A child element of a page container (or of a wrapper <div>):
\*   kind "p"          a heading or paragraph with inline nodes `items`
\*   kind "table"      a table; rows is a sequence of rows, a row a sequence of
\*                     <td> cells, a cell a sequence of inline nodes
\*   kind "footnotes"  <div class="footnotes"> with list items `lis`, each
\*                     [id, nodes]; kids are tables nested in the region
\*   kind "div"        any other wrapper element with children `kids`
P(items) == [kind |-> "p", items |-> items, rows |-> <<>>, lis |-> <<>>, kids |-> <<>>]
Table(rows) == [kind |-> "table", items |-> <<>>, rows |-> rows, lis |-> <<>>, kids |-> <<>>]
Footnotes(lis, kids) ==
    [kind |-> "footnotes", items |-> <<>>, rows |-> <<>>, lis |-> lis, kids |-> kids]
Div(kids) == [kind |-> "div", items |-> <<>>, rows |-> <<>>, lis |-> <<>>, kids |-> kids]
Li(id, nodes) == [id |-> id, nodes |-> nodes]

\* page_soup.find_all('table'), in document order, each with whether it lies in a
\* footnotes region and whether it is a direct child of the page
RECURSIVE TablesIn(_, _, _)
TablesIn(children, inFootnotes, top) ==
    IF children = <<>> THEN <<>>
    ELSE LET ch == Head(children)
             here == IF ch.kind = "table"
                     THEN << [rows |-> ch.rows, fn |-> inFootnotes, top |-> top] >>
                     ELSE IF ch.kind = "footnotes" THEN TablesIn(ch.kids, TRUE, FALSE)
                     ELSE IF ch.kind = "div" THEN TablesIn(ch.kids, inFootnotes, FALSE)
                     ELSE <<>>
         IN here \o TablesIn(Tail(children), inFootnotes, top)

AllTables(page) == TablesIn(page.children, FALSE, TRUE)

\* page.find_all(['p', 'h1', 'h2', 'h3', 'h4']) outside the footnotes region
RECURSIVE ProseIn(_)
ProseIn(children) ==
    IF children = <<>> THEN <<>>
    ELSE LET ch == Head(children)
             here == IF ch.kind = "p" THEN <<ch>>
                     ELSE IF ch.kind = "div" THEN ProseIn(ch.kids)
                     ELSE <<>>
         IN here \o ProseIn(Tail(children))

\* page.find('div', class_='footnotes'): the list items of the first footnotes
\* region, <<>> when the page has none
FootnoteLis(page) ==
    LET idx == {i \in DOMAIN page.children : page.children[i].kind = "footnotes"}
    IN IF idx = {} THEN <<>>
       ELSE page.children[CHOOSE i \in idx : \A j \in idx : i <= j].lis

\* -------------------------------------------------- inline footnote resolution
\* The ")" characters that a resolved reference swallows: the first character
\* after the white space that follows the anchor, in the anchor's next sibling
\* text node.  found is the set of ids that resolve.
DroppedParens(items, found) ==
    { j \in DOMAIN items :
        /\ items[j].t = "c" /\ items[j].c = ")"
        /\ \E i \in 1..(j - 1) :
              /\ items[i].t = "a" /\ items[i].href \in found
              /\ \A k \in (i + 1)..(j - 1) : items[k].t = "c" /\ items[k].c \in Whitespace }

\* Variant of Rendered that removes an anchor that does not resolve.
Rendered_DropUnresolved(items, rep) ==
    LET dropped == DroppedParens(items, DOMAIN rep)
        piece(i) == IF i \in dropped THEN <<>>
                    ELSE IF items[i].t = "c" THEN <<items[i].c>>
                    ELSE IF items[i].t = "a" /\ items[i].href \in DOMAIN rep
                         THEN rep[items[i].href]
                    ELSE <<>>
    IN Flatten([i \in DOMAIN items |-> piece(i)])

\* soup.get_text() after the anchors were replaced: rep maps each id that resolves
\* to the text that replaces its anchor
Rendered(items, rep) ==
    LET dropped == DroppedParens(items, DOMAIN rep)
        piece(i) == IF i \in dropped THEN <<>>
                    ELSE IF items[i].t = "c" THEN <<items[i].c>>
                    ELSE IF items[i].t = "a"
                         THEN (IF items[i].href \in DOMAIN rep THEN rep[items[i].href]
                               ELSE items[i].raw)
                    ELSE <<>>
    IN Flatten([i \in DOMAIN items |-> piece(i)])

Anchors(items) == SelectSeq(items, LAMBDA n : n.t = "a")

HrefsOf(anchors) == [i \in 1..Len(anchors) |-> anchors[i].href]

\* the hrefs of the footnote-ref anchors of items, in document order
Hrefs(items) == HrefsOf(Anchors(items))

KeepIn(s, S) == SelectSeq(s, LAMBDA x : x \in S)

\* ------------------------------------------------------------ ColumnProcessor
EmptyMap == [x \in {} |-> x]

ColumnProcessorInit ==
    [ active |-> FALSE,
      footnote_map |-> EmptyMap,
      note_lookup |-> EmptyMap,
      note_counters |-> [left |-> 0, right |-> 0],
      data |-> [ left |-> [html_parts |-> <<>>, notes |-> <<>>, pages |-> <<>>],
                 right |-> [html_parts |-> <<>>, notes |-> <<>>, pages |-> <<>>] ],
      post_table_fragments |-> <<>> ]

DigitOf(d) == <<"0", "1", "2", "3", "4", "5", "6", "7", "8", "9">>[d + 1]

\* str(n) of a natural number
RECURSIVE DecStr(_)
DecStr(n) == IF n < 10 THEN <<DigitOf(n)>> ELSE DecStr(n \div 10) \o <<DigitOf(n % 10)>>

\* f"[p.{page_num}] "
PagePrefix(page_num) == <<"[", "p", ".">> \o DecStr(page_num) \o <<"]", " ">>

FirstOutside(ts) ==
    IF \A i \in DOMAIN ts : ts[i].fn THEN <<>>
    ELSE << ts[CHOOSE i \in DOMAIN ts : ~ts[i].fn /\ \A j \in 1..(i - 1) : ts[j].fn] >>

\* the first table of the page that is not inside a footnotes region
FirstColumnTable(page) == FirstOutside(AllTables(page))

\* str(cell) of every row with at least two cells, joined by " "
RECURSIVE ColumnCells(_, _)
ColumnCells(rows, n) ==
    IF rows = <<>> THEN <<>>
    ELSE (IF Len(Head(rows)) >= 2
          THEN << <<Boundary>> \o Head(rows)[n] \o <<Boundary>> >> ELSE <<>>)
         \o ColumnCells(Tail(rows), n)

\* Variant of AppendPage that appends the page number whether or not the lists
\* hold it.
AppendPage_Always(c, page_num) ==
    [c EXCEPT !.data.left.pages = Append(@, page_num),
              !.data.right.pages = Append(@, page_num)]

\* lines 218-220: the page number joins both page lists unless it is in them
AppendPage(c, page_num) ==
    IF \E i \in DOMAIN c.data.left.pages : c.data.left.pages[i] = page_num
    THEN c
    ELSE [c EXCEPT !.data.left.pages = Append(@, page_num),
                   !.data.right.pages = Append(@, page_num)]

\* line 236
ColumnPrefix(c, page_num) ==
    IF Len(c.data.left.pages) > 1 THEN Txt(PagePrefix(page_num)) ELSE <<>>

\* lines 235-238
AppendCells(c, left_cells, right_cells, page_num) ==
    IF left_cells # <<>> /\ right_cells # <<>>
    THEN [c EXCEPT
            !.data.left.html_parts =
                Append(@, ColumnPrefix(c, page_num) \o Join(left_cells, <<Chr(" ")>>)),
            !.data.right.html_parts =
                Append(@, ColumnPrefix(c, page_num) \o Join(right_cells, <<Chr(" ")>>))]
    ELSE c

\* lines 222-238: t is <<the table>>, or <<>> when the page has none
AppendMarkup(c, t, page_num) ==
    IF t = <<>> THEN c
    ELSE AppendCells(c, ColumnCells(t[1].rows, 1), ColumnCells(t[1].rows, 2), page_num)

\* lines 218-238: the page list and the two columns' markup
AppendColumns(c, page, page_num) ==
    AppendMarkup(AppendPage(c, page_num), FirstColumnTable(page), page_num)

\* the part of id after fn<digits>-, or "none" when id does not start that way
FnRest(id) ==
    IF StartsWith(id, <<"f", "n">>)
    THEN LET r == SubSeq(id, 3, Len(id))
             d == DigitRun(r)
         IN IF d >= 1 /\ Len(r) > d /\ r[d + 1] = "-"
            THEN [ok |-> TRUE, rest |-> SubSeq(r, d + 2, Len(r))]
            ELSE [ok |-> FALSE, rest |-> <<>>]
    ELSE [ok |-> FALSE, rest |-> <<>>]

\* re.match(r'fn\d+-Aet\d+$', note_id)
MatchAet(id) ==
    LET m == FnRest(id) IN
    /\ m.ok /\ StartsWith(m.rest, <<"A", "e", "t">>)
    /\ Len(m.rest) > 3 /\ \A i \in 4..Len(m.rest) : m.rest[i] \in Digits

\* re.match(r'fn\d+-\w*b$', note_id)
MatchWordB(id) ==
    LET m == FnRest(id) IN
    /\ m.ok /\ m.rest # <<>> /\ m.rest[Len(m.rest)] = "b"
    /\ \A i \in DOMAIN m.rest : m.rest[i] \in WordChars

\* re.match(r'fn\d+-\d+a?$', note_id)
MatchNumA(id) ==
    LET m == FnRest(id)
        d == DigitRun(m.rest)
    IN /\ m.ok /\ d >= 1
       /\ \/ d = Len(m.rest)
          \/ d + 1 = Len(m.rest) /\ m.rest[d + 1] = "a"

\* lines 246-259: the side that owns a footnote
\* Variant of NoteOwner that gives an id of no pattern to the right side.
NoteOwner_DefaultRight(note_id) ==
    IF MatchAet(note_id) \/ MatchWordB(note_id) THEN "right"
    ELSE IF MatchNumA(note_id) THEN "left"
    ELSE "right"

NoteOwner(note_id) ==
    IF MatchAet(note_id) \/ MatchWordB(note_id) THEN "right"
    ELSE IF MatchNumA(note_id) THEN "left"
    ELSE "left"

\* lines 268-273
NotePayload(li, marker) ==
    [id |-> NotePrefix \o li.id, marker |-> marker, text |-> NotePlainText(li),
     translation |-> <<>>]

\* lines 254-259, 275-277
StoreNote(c, note_id, owner, note_payload) ==
    [c EXCEPT !.note_counters[owner] = @ + 1,
              !.data[owner].notes = Append(@, note_payload),
              !.footnote_map = (note_id :> [marker |-> note_payload.marker]) @@ @,
              !.note_lookup = (note_id :> note_payload) @@ @]

\* Variant of AddNote that numbers the footnotes of both sides with one counter.
AddNote_SharedCounter(c, li, owner) ==
    StoreNote(c, li.id, owner,
              NotePayload(li, to_superscript(c.note_counters.left
                                             + c.note_counters.right + 1)))

\* lines 253-277: the footnote gets the next ordinal of its owner
AddNote(c, li, owner) ==
    StoreNote(c, li.id, owner, NotePayload(li, to_superscript(c.note_counters[owner] + 1)))

\* lines 243-277: one footnote list item
ColumnNote(c, li) ==
    IF li.id = <<>> \/ li.id \in DOMAIN c.note_lookup THEN c
    ELSE AddNote(c, li, NoteOwner(li.id))

RECURSIVE ColumnNotes(_, _)
ColumnNotes(c, lis) ==
    IF lis = <<>> THEN c ELSE ColumnNotes(ColumnNote(c, Head(lis)), Tail(lis))

\* not text or text.isdigit()
SkipText(text) == text = <<>> \/ IsDigitStr(text)

\* Variant of ProseFragment that shows every fragment by default.
ProseFragment_AlwaysShown(text, notes, lang, page_num) ==
    [text |-> text, notes |-> notes, lang |-> lang, show_by_default |-> TRUE,
     page |-> page_num, pages |-> <<page_num>>, origin |-> "prose-block"]

ProseFragment(text, notes, lang, page_num) ==
    [text |-> text, notes |-> notes, lang |-> lang, show_by_default |-> (lang # "grc"),
     page |-> page_num, pages |-> <<page_num>>, origin |-> "prose-block"]

\* lines 314-326
BlockFragment(text, block_notes, page_num) ==
    IF SkipText(text) THEN <<>>
    ELSE << ProseFragment(text, block_notes, detect_language(text), page_num) >>

\* the replacement of every anchor that resolves against note_lookup
InlineMap(note_lookup) == [h \in DOMAIN note_lookup |-> inline_note_text(note_lookup[h])]

\* note_payload.copy() of every reference that resolves, in document order
CopiedNotes(note_lookup, found) == [i \in DOMAIN found |-> note_lookup[found[i]]]

\* lines 295-326: one heading or paragraph of a table page; <<>> when skipped
ColumnBlock(c, child, page_num) ==
    IF SkipText(clean_text(get_text(child.items, <<" ">>))) THEN <<>>
    ELSE BlockFragment(clean_text(Rendered(child.items, InlineMap(c.note_lookup))),
                       CopiedNotes(c.note_lookup,
                                   KeepIn(Hrefs(child.items), DOMAIN c.note_lookup)),
                       page_num)

\* lines 328-331: a block after the table is queued, any other is returned; src
\* and psrc record the markup each fragment was made from
AddBlock(rest, f, items, table_seen) ==
    IF f = <<>> THEN rest
    ELSE IF table_seen
         THEN [rest EXCEPT !.post = f \o @, !.psrc = <<items>> \o @]
         ELSE [rest EXCEPT !.fragments = f \o @, !.src = <<items>> \o @]

\* lines 279-331: the loop over the page's direct children
RECURSIVE ColumnBlocks(_, _, _, _)
ColumnBlocks(c, children, page_num, table_seen) ==
    IF children = <<>> THEN [fragments |-> <<>>, post |-> <<>>, src |-> <<>>, psrc |-> <<>>]
    ELSE AddBlock(ColumnBlocks(c, Tail(children), page_num,
                               table_seen \/ Head(children).kind = "table"),
                  IF Head(children).kind = "p"
                  THEN ColumnBlock(c, Head(children), page_num) ELSE <<>>,
                  Head(children).items, table_seen)

\* lines 333-336
Returned(c, b) ==
    [cp |-> [c EXCEPT !.post_table_fragments = @ \o b.post],
     fragments |-> b.fragments, src |-> b.src, psrc |-> b.psrc]

\* lines 279-336, c the processor after the footnotes were extracted
ReturnBlocks(c, page, page_num) ==
    Returned(c, ColumnBlocks(c, page.children, page_num, FALSE))

\* ColumnProcessor.start_or_continue: the processor after the call, the fragments
\* returned, and the markup each returned or queued fragment was made from
start_or_continue(c, page, page_num) ==
    ReturnBlocks(ColumnNotes(AppendColumns([c EXCEPT !.active = TRUE], page, page_num),
                             FootnoteLis(page)),
                 page, page_num)

\* Variant of ColumnFragment that derives show_by_default from the language.
ColumnFragment_ByLanguage(col_data, text) ==
    [text |-> text, notes |-> col_data.notes, lang |-> detect_language(text),
     show_by_default |-> (detect_language(text) # "grc"), page |-> col_data.pages[1],
     pages |-> col_data.pages, origin |-> "table-cell"]

\* lines 359-363
ColumnFragment(col_data, text) ==
    [text |-> text, notes |-> col_data.notes, lang |-> detect_language(text),
     show_by_default |-> FALSE, page |-> col_data.pages[1], pages |-> col_data.pages,
     origin |-> "table-cell"]

\* flush.process_column
process_column(c, side) ==
    ColumnFragment(c.data[side],
                   clean_text(Rendered(Join(c.data[side].html_parts, <<Chr(" ")>>),
                                       InlineMap(c.note_lookup))))

\* Variant of flush whose reset keeps the queue of post-table fragments.
flush_KeepsQueue(c) ==
    IF ~c.active THEN [cp |-> c, fragments |-> <<>>]
    ELSE [cp |-> [ColumnProcessorInit EXCEPT
                     !.post_table_fragments = c.post_table_fragments],
          fragments |-> <<process_column(c, "left"), process_column(c, "right")>>
                            \o c.post_table_fragments]

\* Variant of flush whose reset keeps the note lookup and the note counters.
flush_KeepsNotes(c) ==
    IF ~c.active THEN [cp |-> c, fragments |-> <<>>]
    ELSE [cp |-> [ColumnProcessorInit EXCEPT !.note_lookup = c.note_lookup,
                                             !.note_counters = c.note_counters],
          fragments |-> <<process_column(c, "left"), process_column(c, "right")>>
                            \o c.post_table_fragments]

\* ColumnProcessor.flush followed by reset
flush(c) ==
    IF ~c.active THEN [cp |-> c, fragments |-> <<>>]
    ELSE [cp |-> ColumnProcessorInit,
          fragments |-> <<process_column(c, "left"), process_column(c, "right")>>
                            \o c.post_table_fragments]

\* -------------------------------------------------------------- process_pages
HasDigit(page_id) == \E i \in DOMAIN page_id : page_id[i] \in Digits

RECURSIVE ToInt(_)
ToInt(ds) ==
    IF ds = <<>> THEN 0
    ELSE 10 * ToInt(SubSeq(ds, 1, Len(ds) - 1))
         + (CHOOSE d \in 0..9 : DigitOf(d) = ds[Len(ds)])

\* the part of s from its first digit on
RECURSIVE FromFirstDigit(_)
FromFirstDigit(s) ==
    IF s = <<>> \/ Head(s) \in Digits THEN s ELSE FromFirstDigit(Tail(s))

\* re.search(r'\d+', s).group(): the first run of digits
FirstDigits(r) == SubSeq(r, 1, DigitRun(r))

\* int(re.search(r'\d+', page_id).group()) if page_id else 0, for an id on which
\* the search succeeds
PageNum(page_id) ==
    IF page_id = <<>> THEN 0 ELSE ToInt(FirstDigits(FromFirstDigit(page_id)))

\* re.search(r'\d+', page_id) is None on a non-empty id: .group() raises
PageIdRaises(page_id) == page_id # <<>> /\ ~HasDigit(page_id)

FirstInFootnotes(ts) == ts # <<>> /\ ts[1].fn

\* page.find('table') and not page.find('table').find_parent(class_='footnotes')
is_table_page(page) == AllTables(page) # <<>> /\ ~FirstInFootnotes(AllTables(page))

\* line 502
PageFootnote(li, marker) == [id_raw |-> li.id, marker |-> marker, text |-> NotePlainText(li)]

\* lines 487-503: the footnotes of a page without column table
RECURSIVE ProseNotes(_, _, _, _)
ProseNotes(lis, note_counter, pf, nm) ==
    IF lis = <<>> THEN [page_footnotes |-> pf, note_map |-> nm]
    ELSE IF Head(lis).id = <<>> THEN ProseNotes(Tail(lis), note_counter, pf, nm)
    ELSE ProseNotes(Tail(lis), note_counter + 1,
                    Append(pf, PageFootnote(Head(lis), to_superscript(note_counter + 1))),
                    (Head(lis).id :> [marker |-> to_superscript(note_counter + 1)]) @@ nm)

\* next((n for n in page_footnotes if n['id_raw'] == href), None)
NoteDetails(pf, href) ==
    pf[CHOOSE i \in DOMAIN pf : pf[i].id_raw = href /\ \A j \in 1..(i - 1) : pf[j].id_raw # href]

\* lines 516-518
ElemNote(href, note_details) ==
    [id |-> NotePrefix \o href, marker |-> note_details.marker,
     text |-> note_details.text, translation |-> <<>>]

ElemNotes(pf, found) == [i \in DOMAIN found |-> ElemNote(found[i], NoteDetails(pf, found[i]))]

\* lines 520, 527: a resolved anchor is replaced by note_map[href]['marker']
MarkerMap(nm) == [h \in DOMAIN nm |-> nm[h].marker]

\* lines 529-536
ElementFragment(text, elem_notes, page_num) ==
    ProseFragment(text, elem_notes, detect_language(text), page_num)

\* lines 505-536: one heading or paragraph of a page without column table
ProseElement(element, pf, nm, page_num) ==
    IF SkipText(get_text_strip(element.items)) THEN <<>>
    ELSE << ElementFragment(clean_text(Rendered(element.items, MarkerMap(nm))),
                            ElemNotes(pf, KeepIn(Hrefs(element.items), DOMAIN nm)),
                            page_num) >>

AddElement(f, items, rest) ==
    IF f = <<>> THEN rest
    ELSE [fragments |-> f \o rest.fragments, src |-> <<items>> \o rest.src]

RECURSIVE ProseElements(_, _, _, _)
ProseElements(elements, pf, nm, page_num) ==
    IF elements = <<>> THEN [fragments |-> <<>>, src |-> <<>>]
    ELSE AddElement(ProseElement(Head(elements), pf, nm, page_num), Head(elements).items,
                    ProseElements(Tail(elements), pf, nm, page_num))

\* lines 477-478
FlushIfActive(c) == IF c.active THEN flush(c) ELSE [cp |-> c, fragments |-> <<>>]

\* lines 485-536: a page with prose; fl is what the flush before it gave
ProseOut(fl, notes, out) ==
    [cp |-> fl.cp, flushed |-> fl.fragments, fragments |-> out.fragments, src |-> out.src,
     page_footnotes |-> notes.page_footnotes, note_map |-> notes.note_map]

ProseWithNotes(fl, prose_elements, notes, page_num) ==
    ProseOut(fl, notes,
             ProseElements(prose_elements, notes.page_footnotes, notes.note_map, page_num))

\* lines 480-536
ProseOrBlank(fl, prose_elements, page, page_num, pf, nm) ==
    IF prose_elements = <<>>
    THEN [cp |-> fl.cp, flushed |-> fl.fragments, fragments |-> <<>>, src |-> <<>>,
          page_footnotes |-> pf, note_map |-> nm]
    ELSE ProseWithNotes(fl, prose_elements,
                        ProseNotes(FootnoteLis(page), 0, <<>>, EmptyMap), page_num)

\* Variant of non_table_page that skips a blank page before the flush.
non_table_page_BlankFirst(c, page, page_num, pf, nm) ==
    IF ProseIn(page.children) = <<>>
    THEN [cp |-> c, flushed |-> <<>>, fragments |-> <<>>, src |-> <<>>,
          page_footnotes |-> pf, note_map |-> nm]
    ELSE ProseOrBlank(FlushIfActive(c), ProseIn(page.children), page, page_num, pf, nm)

\* lines 476-536: the else branch of the loop body, for one page that is not a
\* table page.  c, pf, nm are the processor and the loop's locals before it.
non_table_page(c, page, page_num, pf, nm) ==
    ProseOrBlank(FlushIfActive(c), ProseIn(page.children), page, page_num, pf, nm)

\* ------------------------------------------------------------ merge_fragments
\* Python's None, kept apart from every page number (page numbers are >= 0)
None == -1

IsAlpha(c) == c \in Range(UpperChars) \cup Range(LowerChars) \cup GreekChars

IsUpper(c) == c \in Range(UpperChars)

\* first_alpha_character: <<>> is the empty string
first_alpha_character(text) ==
    IF \E i \in DOMAIN text : IsAlpha(text[i])
    THEN << text[CHOOSE i \in DOMAIN text :
                   IsAlpha(text[i]) /\ \A j \in 1..(i - 1) : ~IsAlpha(text[j])] >>
    ELSE <<>>

\* lines 385-389, prev_trimmed not empty
BreaksSentence(prev_trimmed, first_alpha) ==
    /\ prev_trimmed[Len(prev_trimmed)] \in {".", "!", "?"}
    /\ first_alpha = <<>> \/ IsUpper(first_alpha[1])

\* Variant of should_merge that does not right-trim prev_text.
should_merge_NoTrim(prev_text, next_text) ==
    IF prev_text = <<>> THEN FALSE
    ELSE ~BreaksSentence(prev_text, first_alpha_character(LStrip(next_text)))

should_merge(prev_text, next_text) ==
    IF RStrip(prev_text) = <<>> THEN FALSE
    ELSE ~BreaksSentence(RStrip(prev_text), first_alpha_character(LStrip(next_text)))

clone_fragment(fragment) ==
    [text |-> fragment.text, notes |-> fragment.notes, lang |-> fragment.lang,
     show_by_default |-> fragment.show_by_default, page |-> fragment.page,
     pages |-> fragment.pages, origin |-> fragment.origin]

\* current["page"] = current["pages"][0] if current["pages"] else None
WithFirstPage(current) ==
    [current EXCEPT !.page = IF current.pages # <<>> THEN current.pages[1] ELSE None]

\* The state of the loop of merge_fragments: merged, current (<<>> for None, else
\* <<accumulator>>), and as history the indices of the fragments each finished
\* paragraph (msrc) and the accumulator (csrc) were built from.
MergeInit == [merged |-> <<>>, current |-> <<>>, msrc |-> <<>>, csrc |-> <<>>]

\* merged.append(current) after the page was set; nothing when current is None
CloseCurrent(st) ==
    IF st.current = <<>> THEN st
    ELSE [merged |-> Append(st.merged, WithFirstPage(st.current[1])), current |-> <<>>,
          msrc |-> Append(st.msrc, st.csrc), csrc |-> <<>>]

\* lines 419: the table-cell fragment is appended as it is
EmitCell(st, fragment, i) ==
    [st EXCEPT !.merged = Append(@, clone_fragment(fragment)), !.msrc = Append(@, <<i>>)]

\* lines 423-425: the accumulator a fragment starts
Started(c) == IF c.pages = <<>> THEN [c EXCEPT !.pages = <<c.page>>] ELSE c

OpenCurrent(st, fragment, i) ==
    [st EXCEPT !.current = << Started(clone_fragment(fragment)) >>, !.csrc = <<i>>]

\* Variant of Differs that compares the language only.
Differs_LangOnly(current, fragment) == current.lang # fragment.lang

\* lines 428-432
Differs(current, fragment) ==
    \/ current.lang # fragment.lang
    \/ current.show_by_default # fragment.show_by_default
    \/ current.origin # fragment.origin

\* lines 449-451
RECURSIVE AppendPages(_, _)
AppendPages(pages, new_pages) ==
    IF new_pages = <<>> THEN pages
    ELSE AppendPages(IF Head(new_pages) # None
                        /\ (pages = <<>> \/ pages[Len(pages)] # Head(new_pages))
                     THEN Append(pages, Head(new_pages)) ELSE pages,
                     Tail(new_pages))

\* line 448
NewPages(fragment) == IF fragment.pages # <<>> THEN fragment.pages ELSE <<fragment.page>>

\* lines 448-454
Extended(current, fragment) ==
    [current EXCEPT !.pages = AppendPages(@, NewPages(fragment)),
                    !.text = clean_text(@ \o <<" ">> \o fragment.text),
                    !.notes = @ \o fragment.notes]

ExtendCurrent(st, fragment, i) ==
    [st EXCEPT !.current = << Extended(st.current[1], fragment) >>, !.csrc = Append(@, i)]

\* lines 409-454: the loop body for the i-th fragment
MergeStep(st, fragment, i) ==
    IF fragment.text = <<>> THEN st
    ELSE IF fragment.origin = "table-cell" THEN EmitCell(CloseCurrent(st), fragment, i)
    ELSE IF st.current = <<>> THEN OpenCurrent(st, fragment, i)
    ELSE IF Differs(st.current[1], fragment) THEN OpenCurrent(CloseCurrent(st), fragment, i)
    ELSE IF ~should_merge(st.current[1].text, fragment.text)
         THEN OpenCurrent(CloseCurrent(st), fragment, i)
    ELSE ExtendCurrent(st, fragment, i)

\* lines 408-458: the loop from the i-th fragment on, then the last accumulator
RECURSIVE MergeFrom(_, _, _)
MergeFrom(st, fs, i) ==
    IF i > Len(fs) THEN CloseCurrent(st)
    ELSE MergeFrom(MergeStep(st, fs[i], i), fs, i + 1)

merge_fragments(fs) == MergeFrom(MergeInit, fs, 1).merged

\* history: for each paragraph of merge_fragments(fs) the indices in fs of the
\* fragments it was built from
merge_sources(fs) == MergeFrom(MergeInit, fs, 1).msrc

\* ------------------------------------------------------------- build_document
\* f"p{index + 1:03d}"
ParagraphId(n) ==
    <<"p">> \o (IF n < 10 THEN <<"0", "0">> ELSE IF n < 100 THEN <<"0">> ELSE <<>>)
            \o DecStr(n)

\* lines 550-567, without the timestamp
Paragraph(n, frag) ==
    [id |-> ParagraphId(n),
     original |-> [lang |-> frag.lang, text |-> frag.text, notes |-> frag.notes,
                   page |-> frag.page, pages |-> frag.pages],
     translation |-> [lang |-> "en", text |-> <<>>, confidence |-> "pending_review",
                      show_by_default |-> frag.show_by_default]]

\* build_document: the paragraphs of the document
build_document(fs) == [n \in DOMAIN fs |-> Paragraph(n, fs[n])]

\* ------------------------------------------------------------------- inputs
\* Identifiers of footnote list items and targets of references.
id_fn1_1 == <<"f", "n", "1", "-", "1">>
id_fn1_2b == <<"f", "n", "1", "-", "2", "b">>
id_fn1_Aet1 == <<"f", "n", "1", "-", "A", "e", "t", "1">>
id_fn2_1 == <<"f", "n", "2", "-", "1">>
id_fn2_2 == <<"f", "n", "2", "-", "2">>
id_fn2_1a == <<"f", "n", "2", "-", "1", "a">>
id_fn_1b == <<"f", "n", "-", "1", "b">>
id_x9 == <<"x", "9">>
id_fn9_9 == <<"f", "n", "9", "-", "9">>

\* Identifiers of page containers: "page-1", "page-2", none, and "pg".
id_page1 == <<"p", "a", "g", "e", "-", "1">>
id_page2 == <<"p", "a", "g", "e", "-", "2">>
id_none == <<>>
id_pg == <<"p", "g">>

Page(id, children) == [id |-> id, children |-> children]

\* page-1, prose: a reference that resolves, followed by a stray ")", and a
\* footnote with an enumerator and a backlink
PageProseRef ==
    Page(id_page1,
         << P(Txt(<<"A", "b">>) \o <<Ref(id_fn1_1, <<"1">>)>> \o Txt(<<")", " ", "c", "d", ".">>)),
            Footnotes(<< Li(id_fn1_1, Txt(<<"1", ")", " ", "X", "y">>) \o <<Backlink(<<"^">>)>>) >>, <<>>) >>)

\* page-2, prose: a reference with no target, a bare page number, a list item
\* without id, two list items with the same id, three list items with an id
PageDupNotes ==
    Page(id_page2,
         << P(<<Ref(id_fn9_9, <<"7">>)>> \o Txt(<<"s", "t">>)),
            P(Txt(<<"1", "7">>)),
            P(Txt(<<"Z", "u">>) \o <<Ref(id_fn2_1, <<"2">>)>>),
            Footnotes(<< Li(<<>>, Txt(<<"O", "h">>)),
                         Li(id_fn2_1, Txt(<<"E", "i", "n", "s">>)),
                         Li(id_fn2_1, Txt(<<"Z", "w", "e", "i">>)),
                         Li(id_fn2_2, Txt(<<"D", "r", "e", "i">>)) >>, <<>>) >>)

\* page-2 without heading or paragraph: a blank page
PageBlank ==
    Page(id_page2, << Footnotes(<< Li(id_fn1_1, Txt(<<"Y", "z">>)) >>, <<>>) >>)

\* a page container without id (page number 0), Latin prose with a reference to a
\* footnote of page-1, no footnotes region
PageNoId ==
    Page(id_none,
         << P(Txt(<<"e", "t", " ", "i", "n", " ", "r", "e">>) \o <<Ref(id_fn1_2b, <<"2">>)>>) >>)

\* a page container whose id holds no digit
PageBadId == Page(id_pg, << P(Txt(<<"A", "b">>)) >>)

\* page-1, table page: a block before the table, a two-cell row with a reference
\* in each column, a one-cell row, a block after the table, footnotes of both
\* sides, one with an id of no pattern and one without id
PageTableA ==
    Page(id_page1,
         << P(Txt(<<"K", "o", "p", "f">>)),
            Table(<< << Txt(<<"L", "i">>) \o <<Ref(id_fn1_1, <<"1">>)>> \o Txt(<<")">>),
                        Txt(<<"R", "e">>) \o <<Ref(id_fn1_2b, <<"2">>)>> >>,
                     << Txt(<<"x">>) >> >>),
            P(Txt(<<"N", "a", "c", "h", ".">>)),
            Footnotes(<< Li(id_fn1_1, Txt(<<"1", ")", " ", "E", "i", "n", "s">>)),
                         Li(id_fn1_2b, Txt(<<"Z", "w", "e", "i">>)),
                         Li(id_fn1_Aet1, Txt(<<"D", "r", "e", "i">>)),
                         Li(id_x9, Txt(<<"V", "i", "e", "r">>)),
                         Li(<<>>, Txt(<<"O", "h">>)) >>, <<>>) >>)

\* page-2, table page: a reference with no target in the left column, Greek text
\* in the right column, a block after the table that refers to a footnote of an
\* earlier page of the run, a list item whose id was already extracted
PageTableB ==
    Page(id_page2,
         << Table(<< << Txt(<<"F", "o">>) \o <<Ref(id_fn9_9, <<"7">>)>>,
                        Txt(<<"alpha">>) \o <<Ref(id_fn2_1a, <<"3">>)>> >> >>),
            P(Txt(<<"S", "o">>) \o <<Ref(id_fn1_1, <<"1">>), Ref(id_fn9_9, <<"7">>)>>),
            Footnotes(<< Li(id_fn1_1, Txt(<<"D", "u", "p">>)),
                         Li(id_fn2_1a, Txt(<<"N", "e", "u">>)),
                         Li(id_fn_1b, Txt(<<"N", "a", "h">>)) >>, <<>>) >>)

\* a table page without id whose table lies in a wrapper element together with
\* a block, followed by a block
PageTableWrapped ==
    Page(id_none,
         << Div(<< Table(<< << Txt(<<"W", "l">>), Txt(<<"W", "r">>) >> >>),
                   P(Txt(<<"I", "n">>)) >>),
            P(Txt(<<"D", "a">>)) >>)

\* page-2, table page whose table has no row of two cells, with a footnote
PageTableNarrow ==
    Page(id_page2,
         << Table(<< << Txt(<<"x">>) >> >>),
            Footnotes(<< Li(id_fn2_2, Txt(<<"W", "e", "g">>)) >>, <<>>) >>)

\* page-1: a footnotes region that holds a table, then a two-column table, a
\* block and a block of Greek
PageNoteTableFirst ==
    Page(id_page1,
         << Footnotes(<< Li(id_fn1_1, Txt(<<"Y", "z">>)) >>,
                      << Table(<< << Txt(<<"a">>), Txt(<<"b">>) >> >>) >>),
            Table(<< << Txt(<<"L", "i">>), Txt(<<"R", "e">>) >> >>),
            P(Txt(<<"D", "a">>)),
            P(Txt(<<"beta", "alpha">>)) >>)

Pages ==
    { PageProseRef, PageDupNotes, PageBlank, PageNoId, PageBadId,
      PageTableA, PageTableB, PageTableWrapped, PageTableNarrow, PageNoteTableFirst }

\* ------------------------------------------------------------- state machine
\* pc            "scan" inside the loop of process_pages, "done" after its return,
\*               "merged" after merge_fragments, "built" after build_document,
\*               "error" after an exception; "api" when the ColumnProcessor is
\*               driven by direct calls; "fn" before a function is called directly,
\*               "fn_returned" after it returned
\* cp            the ColumnProcessor instance
\* fragments     the list process_pages builds
\* page_footnotes, note_map   the loop's locals of the same names
\* ret           the last direct call: its name (op), the processor before it
\*               (before) and the value it returned (out)
\* visits        history: the page containers visited so far, in order, each
\*               with its page number and whether it went to start_or_continue
\* prov          history, parallel to fragments: for each fragment how it was
\*               emitted (via), at which visit, the markup it was made from
\*               and the footnote ids that were in scope
\* post_src      history, parallel to cp.post_table_fragments
\* merged        main's list of merged fragments, the value of merge_fragments
\* msrc          history, parallel to merged: the indices of the fragments each
\*               paragraph was built from
\* document      the paragraphs of the document build_document returns
Prov(via, visit, side, items, scope, from) ==
    [via |-> via, visit |-> visit, side |-> side, items |-> items, scope |-> scope,
     from |-> from]

\* ret before any direct call
NoCall == [op |-> "none", before |-> ColumnProcessorInit, out |-> <<>>]

Init ==
    /\ pc = "scan"
    /\ cp = ColumnProcessorInit
    /\ fragments = <<>>
    /\ prov = <<>>
    /\ post_src = <<>>
    /\ visits = <<>>
    /\ page_footnotes = <<>>
    /\ note_map = EmptyMap
    /\ ret = NoCall
    /\ merged = <<>>
    /\ msrc = <<>>
    /\ document = <<>>

Requeue(q, k) == [i \in DOMAIN q |-> [q[i] EXCEPT !.via = "flush", !.visit = k]]

\* the history entries of what flush(c) returns when called at visit k
FlushProv(c, q, k) ==
    IF ~c.active THEN <<>>
    ELSE << Prov("flush", k, "left", Join(c.data.left.html_parts, <<Chr(" ")>>),
                 DOMAIN c.note_lookup, k),
            Prov("flush", k, "right", Join(c.data.right.html_parts, <<Chr(" ")>>),
                 DOMAIN c.note_lookup, k) >>
         \o Requeue(q, k)

ProvOf(via, k, src, scope) ==
    [i \in DOMAIN src |-> Prov(via, k, "block", src[i], scope, k)]

\* loop body, table page: lines 474-475
TablePage ==
    /\ pc = "scan" /\ Len(visits) < MaxPages
    /\ \E page \in Pages :
          /\ ~PageIdRaises(page.id)
          /\ is_table_page(page)
          /\ \E r \in {start_or_continue(cp, page, PageNum(page.id))} :
                /\ cp' = r.cp
                /\ fragments' = fragments \o r.fragments
                /\ prov' = prov \o ProvOf("soc", Len(visits) + 1, r.src,
                                          DOMAIN r.cp.note_lookup)
                /\ post_src' = post_src \o ProvOf("queued", Len(visits) + 1, r.psrc,
                                                  DOMAIN r.cp.note_lookup)
          /\ visits' = Append(visits, [num |-> PageNum(page.id), table |-> TRUE,
                                        page |-> page])
    /\ UNCHANGED <<pc, page_footnotes, note_map, ret,
                 merged, msrc, document>>

\* loop body, any other page: lines 476-536
ProsePage ==
    /\ pc = "scan" /\ Len(visits) < MaxPages
    /\ \E page \in Pages :
          /\ ~PageIdRaises(page.id)
          /\ ~is_table_page(page)
          /\ \E r \in {non_table_page(cp, page, PageNum(page.id), page_footnotes, note_map)} :
                /\ cp' = r.cp
                /\ fragments' = fragments \o r.flushed \o r.fragments
                /\ prov' = prov \o FlushProv(cp, post_src, Len(visits) + 1)
                                \o ProvOf("prose", Len(visits) + 1, r.src, DOMAIN r.note_map)
                /\ page_footnotes' = r.page_footnotes
                /\ note_map' = r.note_map
          /\ post_src' = IF cp.active THEN <<>> ELSE post_src
          /\ visits' = Append(visits, [num |-> PageNum(page.id), table |-> FALSE,
                                        page |-> page])
    /\ UNCHANGED <<pc, ret,
                 merged, msrc, document>>

\* line 470 raises on a page id without digits: process_pages ends by exception
BadPageId ==
    /\ pc = "scan" /\ Len(visits) < MaxPages
    /\ \E page \in Pages : PageIdRaises(page.id)
    /\ pc' = "error"
    /\ UNCHANGED <<cp, fragments, prov, post_src, visits, page_footnotes, note_map, ret,
                 merged, msrc, document>>

\* Variant of EndOfPages that returns without the final flush.
EndOfPages_NoFlush ==
    /\ pc = "scan"
    /\ pc' = "done"
    /\ UNCHANGED <<cp, fragments, prov, post_src, visits, page_footnotes, note_map, ret,
                 merged, msrc, document>>

\* lines 538-541: after the last page
EndOfPages ==
    /\ pc = "scan"
    /\ \E r \in {FlushIfActive(cp)} :
          /\ cp' = r.cp
          /\ fragments' = fragments \o r.fragments
    /\ prov' = prov \o FlushProv(cp, post_src, Len(visits) + 1)
    /\ post_src' = IF cp.active THEN <<>> ELSE post_src
    /\ pc' = "done"
    /\ UNCHANGED <<visits, page_footnotes, note_map, ret,
                 merged, msrc, document>>

\* main, line 601: fragments = merge_fragments(process_pages(soup))
MergeFragments ==
    /\ pc = "done"
    /\ merged' = merge_fragments(fragments)
    /\ msrc' = merge_sources(fragments)
    /\ pc' = "merged"
    /\ UNCHANGED <<cp, fragments, prov, post_src, visits, page_footnotes, note_map, ret,
                   document>>

\* main, line 604: document = build_document(fragments, metadata)
BuildDocument ==
    /\ pc = "merged"
    /\ document' = build_document(merged)
    /\ pc' = "built"
    /\ UNCHANGED <<cp, fragments, prov, post_src, visits, page_footnotes, note_map, ret,
                   merged, msrc>>

Next ==
    TablePage \/ ProsePage \/ BadPageId \/ EndOfPages \/ MergeFragments \/ BuildDocument

Spec == Init /\ [][Next]_vars

\* ------------------------------------------- ColumnProcessor, called directly
InitCP ==
    /\ pc = "api"
    /\ cp = ColumnProcessorInit
    /\ fragments = <<>>
    /\ prov = <<>>
    /\ post_src = <<>>
    /\ visits = <<>>
    /\ page_footnotes = <<>>
    /\ note_map = EmptyMap
    /\ ret = NoCall
    /\ merged = <<>>
    /\ msrc = <<>>
    /\ document = <<>>

\* column_processor.start_or_continue(page, page_num)
CallStart ==
    /\ pc = "api" /\ Len(visits) < MaxCalls
    /\ \E page \in Pages :
          /\ ~PageIdRaises(page.id)
          /\ is_table_page(page)
          /\ \E r \in {start_or_continue(cp, page, PageNum(page.id))} :
                /\ cp' = r.cp
                /\ ret' = [op |-> "start_or_continue", before |-> cp, out |-> r.fragments]
          /\ visits' = Append(visits, [num |-> PageNum(page.id), table |-> TRUE,
                                        page |-> page])
    /\ UNCHANGED <<pc, fragments, prov, post_src, page_footnotes, note_map,
                 merged, msrc, document>>

\* column_processor.flush()
CallFlush ==
    /\ pc = "api"
    /\ \E r \in {flush(cp)} :
          /\ cp' = r.cp
          /\ ret' = [op |-> "flush", before |-> cp, out |-> r.fragments]
    /\ UNCHANGED <<pc, fragments, prov, post_src, visits, page_footnotes, note_map,
                 merged, msrc, document>>

NextCP == CallStart \/ CallFlush

SpecCP == InitCP /\ [][NextCP]_vars

\* -------------------------------------------- merge_fragments, called directly
MaxFrags == 3

\* the notes of the input fragments
InNote(n) ==
    [id |-> NotePrefix \o <<"n">> \o DecStr(n), marker |-> to_superscript(n),
     text |-> <<"T">>, translation |-> <<>>]

InFragment(text, notes, lang, show_by_default, page, pages, origin) ==
    [text |-> text, notes |-> notes, lang |-> lang, show_by_default |-> show_by_default,
     page |-> page, pages |-> pages, origin |-> origin]

\* Input fragments: sentence ends, a text without letter, lower-case and
\* upper-case starts, Greek, a fragment that differs in show_by_default only,
\* fragments without pages list and without page, a table-cell fragment, and a
\* table-cell fragment with empty text.
InFragments ==
    { InFragment(<<"E", "n", "d", ".">>, <<InNote(1)>>, "de", TRUE, 1, <<1>>, "prose-block"),
      InFragment(<<"1", ".">>, <<>>, "de", TRUE, 1, <<1>>, "prose-block"),
      InFragment(<<"a", "b", "c">>, <<InNote(2)>>, "de", TRUE, 2, <<>>, "prose-block"),
      InFragment(<<"N", "e", "u">>, <<>>, "de", TRUE, 2, <<2>>, "prose-block"),
      InFragment(<<"alpha">>, <<>>, "grc", FALSE, 2, <<2>>, "prose-block"),
      InFragment(<<"a", "b", "c">>, <<>>, "de", FALSE, 2, <<2>>, "prose-block"),
      InFragment(<<"a", "b", "c">>, <<>>, "de", TRUE, None, <<>>, "prose-block"),
      InFragment(<<"Z", "e", "l">>, <<InNote(3)>>, "de", FALSE, 1, <<1, 2>>, "table-cell"),
      InFragment(<<>>, <<InNote(4)>>, "de", FALSE, 1, <<1>>, "table-cell") }

RECURSIVE SeqsUpTo(_, _)
SeqsUpTo(S, n) ==
    IF n = 0 THEN {<<>>}
    ELSE SeqsUpTo(S, n - 1)
         \cup { Append(q, x) : q \in { r \in SeqsUpTo(S, n - 1) : Len(r) = n - 1 }, x \in S }

InitMerge ==
    /\ pc = "fn"
    /\ fragments \in SeqsUpTo(InFragments, MaxFrags)
    /\ cp = ColumnProcessorInit
    /\ prov = <<>>
    /\ post_src = <<>>
    /\ visits = <<>>
    /\ page_footnotes = <<>>
    /\ note_map = EmptyMap
    /\ ret = NoCall
    /\ merged = <<>>
    /\ msrc = <<>>
    /\ document = <<>>

\* merged = merge_fragments(fragments)
CallMerge ==
    /\ pc = "fn"
    /\ merged' = merge_fragments(fragments)
    /\ msrc' = merge_sources(fragments)
    /\ pc' = "fn_merged"
    /\ UNCHANGED <<cp, fragments, prov, post_src, visits, page_footnotes, note_map, ret,
                   document>>

\* merge_fragments(merged): the merger run on its own output
CallRemerge ==
    /\ pc = "fn_merged"
    /\ ret' = [op |-> "merge_fragments", before |-> merged, out |-> merge_fragments(merged)]
    /\ pc' = "fn_remerged"
    /\ UNCHANGED <<cp, fragments, prov, post_src, visits, page_footnotes, note_map,
                   merged, msrc, document>>

NextMerge == CallMerge \/ CallRemerge

SpecMerge == InitMerge /\ [][NextMerge]_vars

\* ------------------------------------------------ should_merge, called directly
\* Input texts: the examples "End of sentence.", "Next begins.", "a comma,",
\* "continues", "" and "anything"; white space only; trailing white space after
\* "!"; no letter; a Greek letter; "?"; a lone "."; a capital after "(".
InTexts ==
    { <<"E", "n", "d", " ", "o", "f", " ", "s", "e", "n", "t", "e", "n", "c", "e", ".">>,
      <<"N", "e", "x", "t", " ", "b", "e", "g", "i", "n", "s", ".">>,
      <<"a", " ", "c", "o", "m", "m", "a", ",">>,
      <<"c", "o", "n", "t", "i", "n", "u", "e", "s">>,
      <<>>,
      <<"a", "n", "y", "t", "h", "i", "n", "g">>,
      <<" ", " ">>,
      <<"E", "h", "!", " ">>,
      <<" ", "1", "2">>,
      <<" ", "alpha">>,
      <<"W", "a", "s", "?">>,
      <<".", " ">>,
      <<" ", "(", "N", "e", "u">> }

InitText ==
    /\ pc = "fn"
    /\ fragments = <<>>
    /\ cp = ColumnProcessorInit
    /\ prov = <<>>
    /\ post_src = <<>>
    /\ visits = <<>>
    /\ page_footnotes = <<>>
    /\ note_map = EmptyMap
    /\ ret = NoCall
    /\ merged = <<>>
    /\ msrc = <<>>
    /\ document = <<>>

\* should_merge(prev_text, next_text)
CallShouldMerge ==
    /\ pc = "fn"
    /\ \E prev_text, next_text \in InTexts :
          ret' = [op |-> "should_merge", before |-> <<prev_text, next_text>>,
                  out |-> should_merge(prev_text, next_text)]
    /\ pc' = "fn_returned"
    /\ UNCHANGED <<cp, fragments, prov, post_src, visits, page_footnotes, note_map,
                   merged, msrc, document>>

\* ---------------------------------------------- detect_language, called directly
\* Words of the input texts: two of the Latin function words, one of them
\* followed by a comma, a capitalised word in "qu", a German word, a Greek letter.
LangWords ==
    { <<"e", "t">>, <<"i", "n">>, <<"e", "t", ",">>, <<"Q", "u", "i", "d">>,
      <<"a", "b">>, <<"alpha">> }

MaxWords == 3

\* Input texts: one to MaxWords words separated by one space, and the same after
\* two leading spaces; a text of two words separated by a newline
SpacedWords(ws) == Join(ws, <<" ">>)

InLangTexts ==
    { SpacedWords(ws) : ws \in SeqsUpTo(LangWords, MaxWords) \ {<<>>} }
        \cup { <<" ", " ">> \o w : w \in LangWords }
        \cup { <<>>, <<"e", "t", "nl", "i", "n">> }

\* detect_language(text)
CallDetectLanguage ==
    /\ pc = "fn"
    /\ \E text \in InLangTexts :
          ret' = [op |-> "detect_language", before |-> text, out |-> detect_language(text)]
    /\ pc' = "fn_returned"
    /\ UNCHANGED <<cp, fragments, prov, post_src, visits, page_footnotes, note_map,
                   merged, msrc, document>>

\* ------------------------------------------------- generate_tei, called directly
\* An element of the parsed HTML tree: its tag ("h1", "p" or "div"), its inline
\* content (text, <a>, <br>) and, for a <div>, its child elements.
Elem(tag, items, kids) == [tag |-> tag, items |-> items, kids |-> kids]

\* root.find('.//tag'): the first element with that tag in document order, as a
\* sequence of at most one element
RECURSIVE FirstOf(_, _)
FirstOf(elems, tag) ==
    IF elems = <<>> THEN <<>>
    ELSE IF Head(elems).tag = tag THEN <<Head(elems)>>
    ELSE IF FirstOf(Head(elems).kids, tag) # <<>> THEN FirstOf(Head(elems).kids, tag)
    ELSE FirstOf(Tail(elems), tag)

\* f"{el.text if el is not None else ''}": the text node that starts the
\* element; an element that starts with no text has text None, which the
\* f-string formats as "None"
ElemText(found) ==
    IF found = <<>> THEN <<>>
    ELSE IF RunLen(found[1].items) = 0 THEN <<"N", "o", "n", "e">>
    ELSE CharsOf(SubSeq(found[1].items, 1, RunLen(found[1].items)))

\* the f-string of the try branch: each tag one element of the sequence, "nl"
\* followed by "    " once per level of indentation
TeiSkeleton(head_text, p_text) ==
    <<"<TEI>", "nl", "    ", "<text>", "nl", "    ", "    ", "<body>",
      "nl", "    ", "    ", "    ", "<div>",
      "nl", "    ", "    ", "    ", "    ", "<head>">> \o head_text \o <<"</head>",
      "nl", "    ", "    ", "    ", "    ", "<p>">> \o p_text \o <<"</p>",
      "nl", "    ", "    ", "    ", "</div>", "nl", "    ", "    ", "</body>",
      "nl", "    ", "</text>", "nl", "</TEI>">>

\* the string of the except branch
MinimalTei ==
    <<"<TEI>", "<text>", "<body>", "<div>", "<p/>", "</div>", "</body>", "</text>", "</TEI>">>

\* html_content is the empty string, on which etree.fromstring raises, or a
\* document whose parsed tree holds the elements body
generate_tei(html_content) ==
    IF html_content.empty THEN MinimalTei
    ELSE TeiSkeleton(ElemText(FirstOf(html_content.body, "h1")),
                     ElemText(FirstOf(html_content.body, "p")))

\* Elements of the input documents: the heading and the paragraph of the test,
\* a heading that starts with a link, an empty heading, a paragraph with a line
\* break, a wrapper that holds a heading and a paragraph.
InElems ==
    { Elem("h1", Txt(<<"T", "i", "t", "l", "e">>), <<>>),
      Elem("p", Txt(<<"S", "o", "m", "e", " ", "c", "o", "n", "t", "e", "n", "t", ".">>), <<>>),
      Elem("h1", <<Ref(<<"x">>, <<"L">>)>> \o Txt(<<"k">>), <<>>),
      Elem("h1", <<>>, <<>>),
      Elem("p", Txt(<<"a">>) \o <<Br>> \o Txt(<<"b">>), <<>>),
      Elem("div", <<>>, << Elem("h1", Txt(<<"I", "n">>), <<>>),
                           Elem("p", Txt(<<"x">>), <<>>) >>) }

MaxElems == 2

InHtml ==
    { [empty |-> FALSE, body |-> b] : b \in SeqsUpTo(InElems, MaxElems) }
        \cup { [empty |-> TRUE, body |-> <<>>] }

CallGenerateTei ==
    /\ pc = "fn"
    /\ \E html_content \in InHtml :
          ret' = [op |-> "generate_tei", before |-> html_content,
                  out |-> generate_tei(html_content)]
    /\ pc' = "fn_returned"
    /\ UNCHANGED <<cp, fragments, prov, post_src, visits, page_footnotes, note_map,
                   merged, msrc, document>>

\* ---------------------------- extract_structured_text_from_note, called directly
\* Nodes of the input markup: a letter, a space and a newline of a text node,
\* and a <br>.
NoteNodes == { Chr("a"), Chr(" "), Chr("nl"), Br }

MaxNodes == 5

InMarkup == SeqsUpTo(NoteNodes, MaxNodes)

CallExtract ==
    /\ pc = "fn"
    /\ \E html_content \in InMarkup :
          ret' = [op |-> "extract_structured_text_from_note", before |-> html_content,
                  out |-> extract_structured_text_from_note(html_content)]
    /\ pc' = "fn_returned"
    /\ UNCHANGED <<cp, fragments, prov, post_src, visits, page_footnotes, note_map,
                   merged, msrc, document>>

NextText == CallShouldMerge \/ CallDetectLanguage \/ CallGenerateTei \/ CallExtract

SpecText == InitText /\ [][NextText]_vars

\* ----------------------------------------------------------------- properties
Sides == {"left", "right"}

\* what the step appended to the scanner output
Added == SubSeq(fragments', Len(fragments) + 1, Len(fragments'))

\* the last visit so far was a table page
LastVisitTable == visits # <<>> /\ visits[Len(visits)].table

\* the step visits a page that is not a table page
VisitsProse == Len(visits') = Len(visits) + 1 /\ ~visits'[Len(visits')].table

\* the first visit of the run of table pages that ends just before visit k
RunStart(k) ==
    CHOOSE s \in 1..k :
        /\ \A j \in s..(k - 1) : visits[j].table
        /\ s = 1 \/ ~visits[s - 1].table

\* the page numbers of that run, in visit order
RunPages(k) == [i \in 1..(k - RunStart(k)) |-> visits[RunStart(k) + i - 1].num]

\* the visible characters of the markup a side has accumulated
ColumnChars(c, side) ==
    { n.c : n \in { m \in Range(Join(c.data[side].html_parts, <<Chr(" ")>>)) :
                      m.t = "c" /\ m.c \notin Whitespace \cup {")"} } }

\* out begins with what a flush of c returns: the left and the right column
\* fragment, holding the pages and the characters c accumulated, then c's queue
BeginsWithFlushOf(out, c) ==
    /\ Len(out) >= 2 + Len(c.post_table_fragments)
    /\ \A k \in 1..2 :
          /\ out[k].origin = "table-cell"
          /\ out[k].pages = c.data[<<"left", "right">>[k]].pages
          /\ ColumnChars(c, <<"left", "right">>[k]) \subseteq Range(out[k].text)
    /\ SubSeq(out, 3, 2 + Len(c.post_table_fragments)) = c.post_table_fragments

\* the items are a block of the page that stands after a table of the page
AfterTable(page, items) ==
    \E j \in DOMAIN page.children :
        /\ page.children[j].kind = "p" /\ page.children[j].items = items
        /\ \E t \in Range(TablesIn(SubSeq(page.children, 1, j - 1), FALSE, TRUE)) : ~t.fn

\* C1: process_pages visits the page containers in ascending order of page
\* number whatever their order in the document: no page is visited after a page
\* with a greater number.
C1_AscendingVisits ==
    \A i, j \in DOMAIN visits : i < j => visits[i].num <= visits[j].num

\* C2: when a page that is not a table page follows a column run, the step that
\* visits it appends the whole output of the run's flush (two column fragments,
\* then every queued post-table fragment) before every fragment of that page,
\* and nothing else but prose of that page after it; also when the page is blank.
C2_FlushBeforeNextPage ==
    [][ (pc = "scan" /\ LastVisitTable /\ VisitsProse)
        => /\ BeginsWithFlushOf(Added, cp)
           /\ ~cp'.active
           /\ \A i \in (3 + Len(cp.post_table_fragments))..Len(Added) :
                 /\ Added[i].origin = "prose-block"
                 /\ Added[i].page = visits'[Len(visits')].num
                 /\ prov'[Len(fragments) + i].via = "prose" ]_vars

\* C2 happens: a blank page followed a column run of two pages with a queued
\* post-table fragment, and the flush was emitted at that visit.
C2_Witness ==
    \E k \in 3..Len(visits) :
        /\ visits[k - 2].table /\ visits[k - 1].table /\ ~visits[k].table
        /\ ProseIn(visits[k].page.children) = <<>>
        /\ \E i \in DOMAIN prov :
              prov[i].via = "flush" /\ prov[i].visit = k /\ prov[i].side = "block"

\* C3: the flush of every maximal run of table pages returns two table-cell
\* fragments, left then right, each with the page numbers of the run in visit
\* order, then the queued post-table fragments; a block after the table of a
\* table page is never returned by start_or_continue.
C3_FlushShape ==
    /\ \A i \in DOMAIN prov :
          (prov[i].via = "flush" /\ prov[i].side = "left")
          => /\ i + 1 \in DOMAIN prov /\ prov[i + 1].side = "right"
             /\ fragments[i].origin = "table-cell"
             /\ fragments[i + 1].origin = "table-cell"
             /\ fragments[i].pages = RunPages(prov[i].visit)
             /\ fragments[i + 1].pages = RunPages(prov[i].visit)
    /\ \A i \in DOMAIN prov :
          prov[i].via = "soc" => ~AfterTable(visits[prov[i].visit].page, prov[i].items)

\* C4: when the last page is a table page, the return of process_pages appends
\* the run's two column fragments and its queued post-table fragments as the
\* final fragments, nothing accumulated is lost, and the processor is inactive.
C4_FinalFlush ==
    [][ (pc = "scan" /\ pc' = "done" /\ LastVisitTable)
        => /\ BeginsWithFlushOf(Added, cp)
           /\ Len(Added) = 2 + Len(cp.post_table_fragments)
           /\ ~cp'.active ]_vars

\* C4 happens: process_pages returned after a run of two table pages, and the
\* output ends with the run's queued post-table fragment.
C4_Witness ==
    /\ pc = "done" /\ Len(visits) >= 2
    /\ visits[Len(visits)].table /\ visits[Len(visits) - 1].table
    /\ Len(fragments) >= 3 /\ ~cp.active
    /\ prov[Len(prov)].via = "flush" /\ prov[Len(prov)].side = "block"
    /\ fragments[Len(fragments) - 1].origin = "table-cell"

\* every accumulator of the processor is empty
IsReset(c) ==
    /\ \A side \in Sides :
          /\ c.data[side].html_parts = <<>>
          /\ c.data[side].notes = <<>>
          /\ c.data[side].pages = <<>>
          /\ c.note_counters[side] = 0
    /\ DOMAIN c.note_lookup = {}
    /\ c.post_table_fragments = <<>>

\* C5: the processor is inactive or active and nothing else; start_or_continue
\* leaves it active; flush on an active processor leaves it inactive with every
\* accumulator reset; flush on an inactive processor returns the empty sequence
\* and changes nothing.
C5_FlushResets ==
    /\ cp.active \in BOOLEAN
    /\ ret.op = "start_or_continue" => cp.active
    /\ ret.op = "flush"
       => IF ret.before.active
          THEN ~cp.active /\ IsReset(cp)
          ELSE ret.out = <<>> /\ cp = ret.before

\* C5 happens: flush was called on a processor that held notes, two pages and a
\* queued post-table fragment.
C5_Witness ==
    /\ ret.op = "flush" /\ ret.before.active
    /\ ret.before.note_counters.left > 0 /\ ret.before.note_counters.right > 0
    /\ Len(ret.before.data.left.pages) = 2
    /\ ret.before.post_table_fragments # <<>>
    /\ Len(ret.out) >= 3

\* the marker of the i-th note of a scope
OrdinalMarker(i) ==
    << <<"s1">>, <<"s2">>, <<"s3">>, <<"s4">>, <<"s5">>, <<"s6">>, <<"s7">>, <<"s8">>,
       <<"s9">> >>[i]

\* the source id of a note
RawId(note) == SubSeq(note.id, Len(NotePrefix) + 1, Len(note.id))

\* the ids of the list items that carry one, in source order
IdsOf(lis) == SelectSeq([i \in DOMAIN lis |-> lis[i].id], LAMBDA id : id # <<>>)

\* the visits of pages with prose that are not table pages
ProseVisits ==
    { k \in DOMAIN visits : ~visits[k].table /\ ProseIn(visits[k].page.children) # <<>> }

\* the footnote references of the markup fragment i was made from
RefsOf(i) == Range(Anchors(prov[i].items))

\* what replaces a reference to note n in the text, white space normalised
InlineText(n) ==
    clean_text(n.marker \o <<"F", "o", "o", "t", "n", "o", "t", "e", " ">>
                 \o n.marker \o <<".", " ">> \o n.text)

\* C6: a footnote list item whose id was already extracted is ignored: no scope
\* holds two notes of one id, and a fragment of a page that is not a table page
\* shows the marker of each note attached to it (the first occurrence's).
C6_DuplicateIgnored ==
    /\ \A i, j \in DOMAIN page_footnotes :
          i < j => page_footnotes[i].id_raw # page_footnotes[j].id_raw
    /\ \A s1, s2 \in Sides :
          \A i \in DOMAIN cp.data[s1].notes : \A j \in DOMAIN cp.data[s2].notes :
             (s1 # s2 \/ i < j) => cp.data[s1].notes[i].id # cp.data[s2].notes[j].id
    /\ \A i \in DOMAIN fragments :
          prov[i].via = "prose"
          => \A n \in Range(fragments[i].notes) : Contains(fragments[i].text, n.marker)

\* C7: in one scope (a page that is not a table page, or one side of a column
\* run) the i-th extracted note has the marker of ordinal i, so the markers are
\* 1..n in source order without gap or reuse; a page's notes are its list items
\* with an id, in order, so a list item without id takes no ordinal.
C7_DenseMarkers ==
    /\ \A i \in DOMAIN page_footnotes : page_footnotes[i].marker = OrdinalMarker(i)
    /\ ProseVisits # {}
       => LET k == CHOOSE m \in ProseVisits : \A n \in ProseVisits : n <= m
          IN [i \in DOMAIN page_footnotes |-> page_footnotes[i].id_raw]
                = IdsOf(FootnoteLis(visits[k].page))
    /\ \A side \in Sides :
          /\ \A i \in DOMAIN cp.data[side].notes :
                cp.data[side].notes[i].marker = OrdinalMarker(i)
          /\ cp.note_counters[side] = Len(cp.data[side].notes)

\* C7 happens: a page with a list item without id and three with an id gave the
\* markers 1, 2, 3, and a column run holds two notes on each side.
C7_Witness ==
    /\ Len(page_footnotes) = 3
    /\ page_footnotes[3].marker = <<"s3">>
    /\ \E k \in ProseVisits : \E li \in Range(FootnoteLis(visits[k].page)) : li.id = <<>>
    /\ \A side \in Sides : Len(cp.data[side].notes) >= 2

\* C8: every footnote reference that resolves is replaced in the fragment's text
\* by marker + "Footnote " + marker + ". " + note text, and a copy of the note is
\* attached to the fragment, on pages of every kind.
C8_InlineNoteText ==
    \A i \in DOMAIN fragments : \A a \in RefsOf(i) :
        a.href \in prov[i].scope
        => \E n \in Range(fragments[i].notes) :
              /\ n.id = NotePrefix \o a.href
              /\ Contains(fragments[i].text, InlineText(n))

\* C9: a footnote reference whose id matches no extracted note in scope keeps its
\* raw marker text in the fragment's text, and no note of that id is attached to
\* the fragment.
C9_UnresolvedKept ==
    \A i \in DOMAIN fragments : \A a \in RefsOf(i) :
        a.href \notin prov[i].scope
        => /\ Contains(fragments[i].text, a.raw)
           /\ \A n \in Range(fragments[i].notes) : n.id # NotePrefix \o a.href

\* C9 happens: a fragment of a page that is not a table page and a column
\* fragment were each made from markup with a reference that does not resolve.
C9_Witness ==
    \E i, j \in DOMAIN fragments :
        /\ prov[i].via = "prose" /\ prov[j].via = "flush" /\ prov[j].side = "left"
        /\ \E a \in RefsOf(i) : a.href \notin prov[i].scope
        /\ \E a \in RefsOf(j) : a.href \notin prov[j].scope

\* the side each footnote id of the inputs belongs to, by the patterns
\* fn<digits>-Aet<digits>, fn<digits>-<word chars>b (right) and
\* fn<digits>-<digits> with optional a (left); left when none matches
OwnerOf ==
    (id_fn1_1 :> "left") @@ (id_fn1_2b :> "right") @@ (id_fn1_Aet1 :> "right")
    @@ (id_fn2_1 :> "left") @@ (id_fn2_2 :> "left") @@ (id_fn2_1a :> "left")
    @@ (id_fn_1b :> "left") @@ (id_x9 :> "left") @@ (id_fn9_9 :> "left")

\* C10: in a column run every extracted footnote is held by exactly one side,
\* the side its id's pattern gives (left when no pattern matches), and its marker
\* is the next ordinal of that side alone: each side's counter counts its notes.
C10_NoteOwnership ==
    /\ \A side \in Sides : \A i \in DOMAIN cp.data[side].notes :
          /\ OwnerOf[RawId(cp.data[side].notes[i])] = side
          /\ cp.data[side].notes[i].marker = OrdinalMarker(i)
    /\ \A side \in Sides : cp.note_counters[side] = Len(cp.data[side].notes)
    /\ \A id \in DOMAIN cp.note_lookup :
          Cardinality({ i \in DOMAIN cp.data.left.notes :
                          RawId(cp.data.left.notes[i]) = id })
          + Cardinality({ i \in DOMAIN cp.data.right.notes :
                            RawId(cp.data.right.notes[i]) = id }) = 1

\* C10 happens: a run holds on the left a note with a plain numeric id, one with
\* a trailing a and one of no pattern, on the right one with Aet and one with b.
C10_Witness ==
    /\ { id_fn1_1, id_fn2_1a, id_x9, id_fn_1b }
          \subseteq { RawId(n) : n \in Range(cp.data.left.notes) }
    /\ { id_fn1_Aet1, id_fn1_2b }
          \subseteq { RawId(n) : n \in Range(cp.data.right.notes) }

\* the digits an identifier ends with
RECURSIVE TrailingDigits(_)
TrailingDigits(id) ==
    IF id # <<>> /\ id[Len(id)] \in Digits
    THEN Append(TrailingDigits(SubSeq(id, 1, Len(id) - 1)), id[Len(id)])
    ELSE <<>>

\* the number an identifier ends with, 0 when it ends with none
TrailingNumber(id) == IF TrailingDigits(id) = <<>> THEN 0 ELSE ToInt(TrailingDigits(id))

\* C11: a page container whose identifier is absent or holds no digit gets page
\* number 0 and never aborts the run, and every page number is the integer its
\* identifier ends with.
C11_PageNumber ==
    /\ pc # "error"
    /\ \A k \in DOMAIN visits : visits[k].num = TrailingNumber(visits[k].page.id)

\* C12: a page goes to start_or_continue exactly when it holds a table outside
\* every footnotes region, also when an earlier table of the page lies in a
\* footnotes region.
C12_TablePageDelegated ==
    \A k \in DOMAIN visits :
        visits[k].table <=> \E t \in Range(AllTables(visits[k].page)) : ~t.fn

\* C13: every paragraph merge_fragments makes of the scanner's output has pages
\* non-decreasing and without two equal neighbours, pages non-empty when page is
\* not null, and page equal to the first of pages.
C13_MergedPages ==
    \A j \in DOMAIN merged :
        /\ \A a \in 1..(Len(merged[j].pages) - 1) :
              merged[j].pages[a] < merged[j].pages[a + 1]
        /\ merged[j].page # None => merged[j].pages # <<>>
        /\ merged[j].pages # <<>> /\ merged[j].page = merged[j].pages[1]

\* what C14 compares of a sequence of paragraphs
Essence(ps) ==
    [j \in DOMAIN ps |-> [text |-> ps[j].text, lang |-> ps[j].lang, pages |-> ps[j].pages,
                          notes |-> ps[j].notes]]

\* C14: merge_fragments is idempotent: run on its own output, each paragraph a
\* fragment, it returns the same number of paragraphs with the same text, lang,
\* pages and notes.
C14_Idempotent ==
    (pc = "fn_remerged" /\ ret.op = "merge_fragments")
    => (ret.before = merged /\ Essence(ret.out) = Essence(merged))


\* the text is empty after right-trimming
BlankText(text) == \A i \in DOMAIN text : text[i] \in Whitespace

\* the last character of the right-trimmed text
LastVisible(text) ==
    text[CHOOSE i \in DOMAIN text :
           text[i] \notin Whitespace /\ \A j \in (i + 1)..Len(text) : text[j] \in Whitespace]

\* the positions of the alphabetic characters of the text
LetterAt(text) == { i \in DOMAIN text : IsAlpha(text[i]) }

\* the first alphabetic character of the text is absent or upper-case
StartsSentence(text) ==
    \A i \in LetterAt(text) : (\A j \in LetterAt(text) : i <= j) => IsUpper(text[i])

\* C15: should_merge(prev, next) is false exactly when prev is empty after
\* right-trimming, or prev's trimmed text ends in ".", "!" or "?" and next's
\* first alphabetic character is absent or upper-case; the three examples give
\* false, true, false.
C15_ShouldMerge ==
    ret.op = "should_merge"
    => /\ ret.out = ~( \/ BlankText(ret.before[1])
                       \/ /\ LastVisible(ret.before[1]) \in {".", "!", "?"}
                          /\ StartsSentence(ret.before[2]) )
       /\ ret.before = << <<"E", "n", "d", " ", "o", "f", " ", "s", "e", "n", "t", "e", "n", "c", "e", ".">>, <<"N", "e", "x", "t", " ", "b", "e", "g", "i", "n", "s", ".">> >> => ret.out = FALSE
       /\ ret.before = << <<"a", " ", "c", "o", "m", "m", "a", ",">>, <<"c", "o", "n", "t", "i", "n", "u", "e", "s">> >> => ret.out = TRUE
       /\ ret.before = << <<>>, <<"a", "n", "y", "t", "h", "i", "n", "g">> >> => ret.out = FALSE

\* C15 happens: should_merge was called on text that ends with white space after
\* "!" and on text that starts with "(" before a capital, and returned false.
C15_Witness ==
    /\ ret.op = "should_merge"
    /\ ret.before = << <<"E", "h", "!", " ">>, <<" ", "(", "N", "e", "u">> >>
    /\ ret.out = FALSE

\* merged holds the value of merge_fragments(fragments)
IsMerged == pc \in {"merged", "built", "fn_merged", "fn_remerged"}

\* C16: every table-cell fragment becomes a paragraph of its own, with its text,
\* pages and notes, and no paragraph is built from fragments on both sides of it.
C16_TableCellAlone ==
    IsMerged
    => \A i \in DOMAIN fragments :
          fragments[i].origin = "table-cell"
          => /\ \E j \in DOMAIN merged :
                   /\ msrc[j] = <<i>>
                   /\ merged[j].text = fragments[i].text
                   /\ merged[j].pages = fragments[i].pages
                   /\ merged[j].notes = fragments[i].notes
             /\ \A j \in DOMAIN merged : \A a, b \in Range(msrc[j]) : ~(a < i /\ i < b)

\* C17: every paragraph of merge_fragments is built from fragments of one lang,
\* one show_by_default and one origin, and carries these values; so two
\* fragments that differ in one of the three are never in one paragraph.
C17_UniformParagraph ==
    IsMerged
    => \A j \in DOMAIN merged : \A i \in Range(msrc[j]) :
          /\ fragments[i].lang = merged[j].lang
          /\ fragments[i].show_by_default = merged[j].show_by_default
          /\ fragments[i].origin = merged[j].origin

\* C17 happens: a paragraph was built from two fragments, and the next fragment,
\* whose text would continue it, differs in show_by_default only.
C17_Witness ==
    /\ IsMerged /\ Len(fragments) = 3
    /\ msrc = << <<1, 2>>, <<3>> >>
    /\ fragments[3].origin = fragments[2].origin
    /\ fragments[3].lang = fragments[2].lang
    /\ fragments[3].show_by_default # fragments[2].show_by_default
    /\ should_merge(merged[1].text, fragments[3].text)

\* C18: merge_fragments keeps the order and loses nothing: the sources of the
\* paragraphs, one after the other, are the fragments 1, 2, ..., n, each once,
\* and the notes of the paragraphs, one after the other, are the notes of the
\* fragments.
C18_NothingLost ==
    IsMerged
    => /\ Flatten(msrc) = [i \in DOMAIN fragments |-> i]
       /\ Flatten([j \in DOMAIN merged |-> merged[j].notes])
             = Flatten([i \in DOMAIN fragments |-> fragments[i].notes])

\* C19 as stated: every fragment the scanner emits has show_by_default false
\* exactly when its lang is grc.
C19_ShowByDefault ==
    \A i \in DOMAIN fragments :
        fragments[i].show_by_default = (fragments[i].lang # "grc")

\* C19, restricted: every prose-block fragment the scanner emits has
\* show_by_default false exactly when its lang is grc and true otherwise; a
\* table-cell fragment has show_by_default false whatever its lang.
C19_ShowByDefaultProse ==
    \A i \in DOMAIN fragments :
        /\ fragments[i].origin = "prose-block"
           => fragments[i].show_by_default = (fragments[i].lang # "grc")
        /\ fragments[i].origin = "table-cell" => ~fragments[i].show_by_default

\* C19 happens: the scanner emitted a prose-block fragment of Greek, prose-block
\* fragments of Latin and of German, and a table-cell fragment that is not Greek.
C19_Witness ==
    /\ \A l \in {"grc", "la", "de"} :
          \E i \in DOMAIN fragments :
             fragments[i].origin = "prose-block" /\ fragments[i].lang = l
    /\ \E i \in DOMAIN fragments :
          fragments[i].origin = "table-cell" /\ fragments[i].lang = "de"

\* the table-cell fragments of the scanner's output: the column fragments a flush
\* returned
ColumnOutputs ==
    { i \in DOMAIN fragments : prov[i].via = "flush" /\ prov[i].side \in Sides }

\* C20: every table-cell fragment has show_by_default false whatever its lang,
\* origin table-cell and page equal to the first page of its run; so has the
\* paragraph merge_fragments builds from it, and the paragraph of the document
\* has that show_by_default and that page.
C20_TableCellFragment ==
    /\ \A i \in DOMAIN fragments : fragments[i].origin = "table-cell" <=> i \in ColumnOutputs
    /\ \A i \in ColumnOutputs :
          /\ ~fragments[i].show_by_default
          /\ fragments[i].page = visits[RunStart(prov[i].visit)].num
          /\ \A j \in DOMAIN merged : i \in Range(msrc[j])
                => /\ ~merged[j].show_by_default
                   /\ merged[j].origin = "table-cell"
                   /\ merged[j].page = visits[RunStart(prov[i].visit)].num
                   /\ j \in DOMAIN document
                      => /\ ~document[j].translation.show_by_default
                         /\ document[j].original.page = visits[RunStart(prov[i].visit)].num

\* C20 happens: the document was built from a run of two pages whose left column
\* is German and whose right column is Greek.
C20_Witness ==
    /\ pc = "built"
    /\ \E i \in ColumnOutputs : \E j \in DOMAIN document :
          /\ prov[i].side = "left" /\ j + 1 \in DOMAIN document
          /\ fragments[i].lang = "de" /\ fragments[i + 1].lang = "grc"
          /\ Len(fragments[i].pages) = 2
          /\ msrc[j] = <<i>> /\ msrc[j + 1] = <<i + 1>>
          /\ ~document[j + 1].translation.show_by_default


\* the visible text of a heading or paragraph: its text nodes, white space
\* normalised
VisibleText(items) == clean_text(get_text(items, <<" ">>))

\* the headings and paragraphs of a page outside the table and the footnotes
\* region whose visible text is neither empty nor a number
Retained(page) ==
    SelectSeq(ProseIn(page.children), LAMBDA b : ~SkipText(VisibleText(b.items)))

\* the fragments made from the blocks of visit k, returned or still queued
BlocksFrom(k) == { i \in DOMAIN prov : prov[i].side = "block" /\ prov[i].from = k }

QueuedFrom(k) == { j \in DOMAIN post_src : post_src[j].from = k }

\* C21: on every page visited, table page or not, the headings and paragraphs
\* outside the table and the footnotes region whose visible text is neither
\* empty nor only digits yield exactly one prose-block fragment each, and the
\* others yield none: the number of fragments made from the page's blocks is the
\* number of its retained blocks.
C21_BlockFragments ==
    \A k \in DOMAIN visits :
        /\ Cardinality(BlocksFrom(k)) + Cardinality(QueuedFrom(k))
              = Len(Retained(visits[k].page))
        /\ \A i \in BlocksFrom(k) : fragments[i].origin = "prose-block"


\* the number of whole-word occurrences of the Latin function words in the
\* lower-cased text: the places where a function word stands between two spaces
\* or an end of the text
WordOccurrences(text) ==
    LET padded == <<" ">> \o Lowered(text) \o <<" ">>
    IN Cardinality({ <<i, w>> \in (DOMAIN padded) \X LATIN_KEYWORDS :
                       /\ i + Len(w) + 1 \in DOMAIN padded
                       /\ SubSeq(padded, i, i + Len(w) + 1) = <<" ">> \o w \o <<" ">> })

\* C22: detect_language gives Greek when the text has a Greek character;
\* otherwise Latin exactly when the Latin function words occur at least twice as
\* whole words or the trimmed lower-cased text starts with "qu"; otherwise the
\* default language.  The result is one of the three classes.
C22_DetectLanguage ==
    ret.op = "detect_language"
    => /\ ret.out \in {"grc", "la", "de"}
       /\ ret.out = IF \E i \in DOMAIN ret.before : ret.before[i] \in GreekChars THEN "grc"
                    ELSE IF \/ WordOccurrences(ret.before) >= 2
                            \/ StartsWith(Strip(Lowered(ret.before)), <<"q", "u">>)
                         THEN "la"
                    ELSE "de"


\* the whole text of the first element with the tag, "" when there is none
TextOfFirst(body, tag) ==
    IF FirstOf(body, tag) = <<>> THEN <<>> ELSE Rendered(FirstOf(body, tag)[1].items, EmptyMap)

\* C23: generate_tei returns the TEI skeleton whose head holds the text of the
\* first h1 and whose p holds the text of the first p, the empty string for a
\* missing element; for an input that cannot be parsed it returns the minimal
\* TEI wrapper.
C23_GenerateTei ==
    ret.op = "generate_tei"
    => ret.out = IF ret.before.empty THEN MinimalTei
                 ELSE TeiSkeleton(TextOfFirst(ret.before.body, "h1"),
                                  TextOfFirst(ret.before.body, "p"))


\* the step visits a table page and appends markup to the two columns
AppendsMarkup ==
    /\ Len(visits') = Len(visits) + 1 /\ visits'[Len(visits')].table
    /\ Len(cp'.data.left.html_parts) = Len(cp.data.left.html_parts) + 1

\* the markup the step appended to the column starts with "[p.N] ", N the number
\* of the page visited
Prefixed(side) ==
    StartsWith(cp'.data[side].html_parts[Len(cp'.data[side].html_parts)],
               Txt(PagePrefix(visits'[Len(visits')].num)))

\* C24: the markup start_or_continue appends to each column for a page starts
\* with "[p.N] " exactly when the page is not the first page of the current run,
\* that is when the processor was already active.
C24_PagePrefix ==
    [][AppendsMarkup => \A side \in Sides : Prefixed(side) <=> cp.active]_vars


NoRepeat(s) == \A i, j \in DOMAIN s : s[i] = s[j] => i = j

\* C25: between the calls of a ColumnProcessor its left and right page lists are
\* equal and hold no page number twice, and they are non-empty exactly when the
\* processor is active; a flush of an active processor returns the two column
\* fragments with the first page of the lists as their page.
C25_PageLists ==
    /\ cp.data.left.pages = cp.data.right.pages
    /\ NoRepeat(cp.data.left.pages)
    /\ cp.active <=> cp.data.left.pages # <<>>
    /\ (ret.op = "flush" /\ ret.before.active)
       => /\ Len(ret.out) >= 2
          /\ ret.out[1].page = ret.before.data.left.pages[1]
          /\ ret.out[2].page = ret.before.data.right.pages[1]

\* C25 happens: a run of three calls of start_or_continue, the third with the
\* page number of the first, was flushed with two page numbers in its lists.
C25_Witness ==
    /\ ret.op = "flush" /\ ret.before.active
    /\ Len(visits) = 3 /\ visits[3].num = visits[1].num
    /\ ret.before.data.left.pages = <<visits[1].num, visits[2].num>>
    /\ ret.out[1].page = visits[1].num


\* the source ids of the notes attached to fragment i
AttachedIds(i) == { RawId(fragments[i].notes[j]) : j \in DOMAIN fragments[i].notes }

\* the ids of the references of fragment i's markup that were resolved
ResolvedIds(i) == { a.href : a \in { r \in RefsOf(i) : r.href \in prov[i].scope } }

\* C26: the notes of every fragment the scanner emits are exactly the notes
\* whose reference was resolved in the fragment's text, and in a column fragment
\* only references to notes of that column's side are resolved.
C26_NotesAreResolved ==
    \A i \in DOMAIN fragments :
        /\ AttachedIds(i) = ResolvedIds(i)
        /\ prov[i].side \in Sides => \A id \in ResolvedIds(i) : NoteOwner(id) = prov[i].side


\* C27: the text extract_structured_text_from_note returns holds no three
\* consecutive newlines, and it neither starts nor ends with a blank line.
C27_BlankLines ==
    ret.op = "extract_structured_text_from_note"
    => /\ ~Contains(ret.out, <<"nl", "nl", "nl">>)
       /\ ret.out # <<>> => ret.out[1] \notin Whitespace /\ ret.out[Len(ret.out)] \notin Whitespace


\* the page containers were visited in strictly ascending page-number order
AscendingVisits == \A k \in DOMAIN visits : k > 1 => visits[k - 1].num < visits[k].num

\* C28: when the pages come in ascending page-number order, the fragments
\* process_pages returns are ordered by page: a fragment emitted before another
\* has a page that is not greater.
C28_OrderedByPage ==
    (pc \in {"done", "merged", "built"} /\ AscendingVisits)
    => \A i, j \in DOMAIN fragments : i < j => fragments[i].page <= fragments[j].page


\* for each id of a note attached to fragment i, the marker of that note
AttachedMarkers(i) ==
    [ h \in AttachedIds(i) |->
        (CHOOSE n \in Range(fragments[i].notes) : RawId(n) = h).marker ]

\* C29: in a fragment of a page that is not a table page, the marker written
\* into the text for a resolved reference is the marker of the note attached for
\* that reference: the text is the markup with every resolved reference replaced
\* by the marker of its attached note.
C29_MarkerOfAttachedNote ==
    \A i \in DOMAIN fragments :
        prov[i].via = "prose"
        => /\ AttachedIds(i) = ResolvedIds(i)
           /\ fragments[i].text = clean_text(Rendered(prov[i].items, AttachedMarkers(i)))


\* the footnote ids of the page of visit k
OwnIds(k) == Range(IdsOf(FootnoteLis(visits[k].page)))

\* the footnote ids of the pages of visits lo..hi
IdsOfVisits(lo, hi) == UNION { OwnIds(k) : k \in lo..hi }

\* the footnote ids fragment i may resolve references against: those of its own
\* page for a page that is not a table page; for a column fragment those of the
\* pages of its run; for a block of a table page those of the pages of its run
\* up to its own page
OwnScope(i) ==
    IF prov[i].via = "prose" THEN OwnIds(prov[i].visit)
    ELSE IF prov[i].side \in Sides
         THEN IdsOfVisits(RunStart(prov[i].visit), prov[i].visit - 1)
    ELSE IdsOfVisits(RunStart(prov[i].from), prov[i].from)

\* C30: footnote scopes do not leak.  A fragment resolves references only
\* against the footnotes of its own page (a page that is not a table page) or of
\* its own run; a reference to any other id, a note id of a finished run
\* included, stays in the text unresolved and attaches no note; an inactive
\* processor holds nothing of a finished run; and in every run the markers of
\* each side start at 1.
C30_ScopesDoNotLeak ==
    /\ \A i \in DOMAIN fragments :
          /\ prov[i].scope = OwnScope(i)
          /\ \A a \in RefsOf(i) :
                a.href \notin OwnScope(i)
                => /\ Contains(fragments[i].text, a.raw)
                   /\ \A n \in Range(fragments[i].notes) : RawId(n) # a.href
    /\ ~cp.active => IsReset(cp)
    /\ \A i \in ColumnOutputs : \A j \in DOMAIN fragments[i].notes :
          fragments[i].notes[j].marker = OrdinalMarker(j)

\* C30 happens: a column run with notes on both sides was flushed, a later page
\* that is not a table page refers to a note id of that run and the reference
\* is unresolved, and a second column run has notes on both sides.
C30_Witness ==
    \E c, i, d \in DOMAIN fragments :
        /\ c < i /\ i < d /\ d + 1 \in DOMAIN fragments
        /\ c \in ColumnOutputs /\ prov[i].via = "prose"
        /\ d \in ColumnOutputs /\ prov[d].side = "left"
        /\ \E a \in RefsOf(i) : a.href \in prov[c].scope /\ a.href \notin OwnScope(i)
        /\ fragments[d].notes # <<>> /\ fragments[d + 1].notes # <<>>
        /\ fragments[d].notes[1].marker = <<"s1">>
        /\ fragments[d + 1].notes[1].marker = <<"s1">>

====
